---- MODULE Spec2Model ----
(***************************************************************************)
(* h02_to_mqtt: a TCP server (socketserver.TCPServer, one request handled  *)
(* at a time) that reassembles '*...#' frames from the chunks of a         *)
(* connection, decodes each frame as an H02 report and publishes it to     *)
(* MQTT.  Model of src/main.py.                                            *)
(*                                                                         *)
(* Bytes and characters are one-character strings; the two non-ASCII bytes *)
(* 0xC3 0xA9 (UTF-8 of U+00E9) are written "C3" and "A9", the character    *)
(* they decode to is written "U+E9".  Python indices are kept 0-based in   *)
(* the operators that model Python code (At, Slice, find).                 *)
(***************************************************************************)
EXTENDS Integers, Sequences, FiniteSets, TLC

\* ------------------------------------------------------------------ bounds
\* number of client connections of a run
NConn == 2
\* number of pieces the client of a single session sends (SessionSpec)
MaxSends == 3
\* number of pieces all clients together send (Spec)
MaxShared == 2
\* number of flood pieces a client sends in a run of FloodSpec
MaxFloods == 3
\* number of reports a tracker sends in a run of DecodeSpec
MaxReports == 1

\* ------------------------------------------------------- program constants
\* request.recv(4096)
RecvSize == 4096

Conns == 1..NConn

\* ------------------------------------------------------------ Python text
Min(a, b) == IF a < b THEN a ELSE b

\* s[i]
At(s, i) == s[i + 1]

\* s[a:b], for 0 <= a
Slice(s, a, b) == SubSeq(s, a + 1, Min(b, Len(s)))

\* s[a:], for 0 <= a
SliceFrom(s, a) == SubSeq(s, a + 1, Len(s))

\* s.find(ch, start): the lowest index >= start holding ch, or -1
find(s, ch, start) ==
  LET hits == {i \in start..(Len(s) - 1) : At(s, i) = ch}
  IN IF hits = {} THEN -1 ELSE CHOOSE i \in hits : \A j \in hits : i <= j

Digits == {"0", "1", "2", "3", "4", "5", "6", "7", "8", "9"}

DigitVal(ch) ==
  CASE ch = "0" -> 0 [] ch = "1" -> 1 [] ch = "2" -> 2 [] ch = "3" -> 3
    [] ch = "4" -> 4 [] ch = "5" -> 5 [] ch = "6" -> 6 [] ch = "7" -> 7
    [] ch = "8" -> 8 [] ch = "9" -> 9

AllDigits(s) == \A i \in 1..Len(s) : s[i] \in Digits

\* ------------------------------------------------------------------ UTF-8
LeadBytes == {"C3"}
ContBytes == {"A9"}

\* bytes.decode() succeeds: every lead byte is followed by its continuation
\* byte inside the same chunk, and no continuation byte stands alone
decodable(chunk) ==
  \A i \in 1..Len(chunk) :
    /\ chunk[i] \in LeadBytes => i < Len(chunk) /\ chunk[i + 1] \in ContBytes
    /\ chunk[i] \in ContBytes => i > 1 /\ chunk[i - 1] \in LeadBytes

IsNotCont(b) == b \notin ContBytes

\* chunk.decode() of a decodable chunk: one character per ASCII byte, one
\* character per two-byte sequence
decode(chunk) ==
  SelectSeq([i \in 1..Len(chunk) |->
               IF chunk[i] \in LeadBytes THEN "U+E9" ELSE chunk[i]],
            IsNotCont)

\* ------------------------------------------------------------ H02 decoder
\* data.split(","): the fields between the commas, in order
RECURSIVE split(_)
split(data) ==
  LET i == find(data, ",", 0)
  IN IF i = -1 THEN <<data>>
     ELSE <<Slice(data, 0, i)>> \o split(SliceFrom(data, i + 1))

\* int(s) succeeds (on the characters of the model: digits only, not empty)
int_ok(s) == Len(s) > 0 /\ AllDigits(s)

\* float(s) succeeds (on the characters of the model: digits with at most
\* one '.', at least one digit)
float_ok(s) ==
  /\ \A i \in 1..Len(s) : s[i] \in Digits \cup {"."}
  /\ Cardinality({i \in 1..Len(s) : s[i] = "."}) <= 1
  /\ \E i \in 1..Len(s) : s[i] \in Digits

\* fix_coord(value) succeeds: int(value[:2]) and float(value[2:]) both do
fix_coord_ok(value) == int_ok(Slice(value, 0, 2)) /\ float_ok(SliceFrom(value, 2))

\* The regular expressions of strptime's directives, in the order of the
\* format "%d%m%y%H%M%S" (k = 1..6): each tries its two-digit alternatives
\* first and its one-digit alternative last.
TwoDigits(k, a, b) ==
  CASE k = 1 -> (a = 3 /\ b <= 1) \/ a \in {1, 2} \/ (a = 0 /\ b >= 1)
    [] k = 2 -> (a = 1 /\ b <= 2) \/ (a = 0 /\ b >= 1)
    [] k = 3 -> TRUE
    [] k = 4 -> (a = 2 /\ b <= 3) \/ a <= 1
    [] k = 5 -> a <= 5
    [] k = 6 -> (a = 6 /\ b <= 1) \/ a <= 5

OneDigit(k, a) ==
  CASE k \in {1, 2} -> a >= 1
    [] k = 3 -> FALSE
    [] OTHER -> TRUE

\* w[1] + ... + w[k]
RECURSIVE Sum(_, _)
Sum(w, k) == IF k = 0 THEN 0 ELSE Sum(w, k - 1) + w[k]

\* re.match of the format's pattern on a string of digits s from index p
\* for the directives k..6, with the backtracking of the regex engine: the
\* widths of the first match it finds, or <<0>> when nothing matches
RECURSIVE StrpMatch(_, _, _)
StrpMatch(s, p, k) ==
  IF k > 6 THEN <<>>
  ELSE
    LET two == IF p + 2 <= Len(s) /\ TwoDigits(k, DigitVal(At(s, p)), DigitVal(At(s, p + 1)))
               THEN StrpMatch(s, p + 2, k + 1) ELSE <<0>>
        one == IF p + 1 <= Len(s) /\ OneDigit(k, DigitVal(At(s, p)))
               THEN StrpMatch(s, p + 1, k + 1) ELSE <<0>>
    IN IF two # <<0>> THEN <<2>> \o two
       ELSE IF one # <<0>> THEN <<1>> \o one
       ELSE <<0>>

\* the number a string of digits writes
RECURSIVE Num(_)
Num(s) == IF s = <<>> THEN 0 ELSE 10 * Num(SubSeq(s, 1, Len(s) - 1)) + DigitVal(s[Len(s)])

IsLeap(year) == year % 4 = 0 /\ (year % 100 # 0 \/ year % 400 = 0)

DaysInMonth(year, month) ==
  IF month = 2 THEN (IF IsLeap(year) THEN 29 ELSE 28)
  ELSE IF month \in {4, 6, 9, 11} THEN 30 ELSE 31

\* the number directive k matched, for the widths w
Field(s, w, k) == Num(SubSeq(s, Sum(w, k - 1) + 1, Sum(w, k)))

\* %y: 69..99 are 1969..1999, 0..68 are 2000..2068
FullYear(y) == IF y < 69 THEN 2000 + y ELSE 1900 + y

\* datetime(year, month, day, hour, minute, second) of the matched numbers:
\* ok = FALSE for ValueError (second or day out of range)
make_datetime(d, m, y, H, M, S) ==
  IF S > 59 \/ d > DaysInMonth(FullYear(y), m) THEN [ok |-> FALSE]
  ELSE [ok |-> TRUE, year |-> FullYear(y), month |-> m, day |-> d,
        hour |-> H, minute |-> M, second |-> S]

\* the datetime of a match w of s: ok = FALSE for ValueError (no match, or
\* unconverted data remains)
matched_datetime(s, w) ==
  IF Len(w) # 6 \/ Sum(w, Len(w)) # Len(s) THEN [ok |-> FALSE]
  ELSE make_datetime(Field(s, w, 1), Field(s, w, 2), Field(s, w, 3),
                     Field(s, w, 4), Field(s, w, 5), Field(s, w, 6))

\* datetime.strptime(s, "%d%m%y%H%M%S"): the naive datetime, or ok = FALSE
\* for ValueError
strptime(s) ==
  IF ~AllDigits(s) THEN [ok |-> FALSE] ELSE matched_datetime(s, StrpMatch(s, 0, 1))

\* the dict H02Payload.split_input builds from parts, its entries in the
\* order Python evaluates them: "none" when the dict is built, else the
\* exception raised
parts_to_dict(parts) ==
  IF Len(parts) < 2 THEN "IndexError"
  ELSE IF Len(parts) < 6 THEN "IndexError"
  ELSE IF ~fix_coord_ok(parts[6]) THEN "ValueError"
  ELSE IF Len(parts) < 8 THEN "IndexError"
  ELSE IF ~fix_coord_ok(parts[8]) THEN "ValueError"
  ELSE IF Len(parts) < 10 THEN "IndexError"
  ELSE IF ~float_ok(parts[10]) THEN "ValueError"
  ELSE IF Len(parts) < 12 THEN "IndexError"
  ELSE IF ~strptime(parts[12] \o parts[4]).ok THEN "ValueError"
  ELSE "none"

\* H02Payload.split_input(data)
split_input(data) == parts_to_dict(split(data))

\* pydantic reports the validator's ValueError as ValidationError and lets
\* any other exception through
validation_error(exc) == IF exc = "ValueError" THEN "ValidationError" ELSE exc

\* process_payload(value): "none" once mqtt_client.publish was called, else
\* the exception that leaves it, raised by H02Payload.model_validate
process_payload(value) == validation_error(split_input(value))

\* ------------------------------------------------------- decoded values
\* Floats that the code rounds are kept as integers: a coordinate in
\* millionths of a degree (round(..., 6)), a velocity in whole km/h.
RECURSIVE Pow10(_)
Pow10(k) == IF k = 0 THEN 1 ELSE 10 * Pow10(k - 1)

IsDigit(ch) == ch \in Digits

\* float(s), for s that float_ok accepts: the number num / 10^scale
float(s) ==
  [num |-> Num(SelectSeq(s, IsDigit)),
   scale |-> IF find(s, ".", 0) = -1 THEN 0 ELSE Len(s) - 1 - find(s, ".", 0)]

\* round(a / b) for a >= 0 and b > 0, a / b not half-way between two
\* integers
RoundDiv(a, b) == (2 * a + b) \div (2 * b)

\* round(f / 60, 6) in millionths
minutes_to_degrees(f) ==
  IF f.scale <= 6 THEN RoundDiv(f.num * Pow10(6 - f.scale), 60)
  ELSE RoundDiv(f.num, 60 * Pow10(f.scale - 6))

\* round(f / 100, 6) in millionths
minutes_as_hundredths(f) ==
  IF f.scale <= 4 THEN f.num * Pow10(4 - f.scale)
  ELSE RoundDiv(f.num, Pow10(f.scale - 4))

\* the minutes read as hundredths of a degree
fix_coord_decimal(value) ==
  Num(Slice(value, 0, 2)) * 1000000 + minutes_as_hundredths(float(SliceFrom(value, 2)))

\* fix_coord(value): round(int(value[:2]) + float(value[2:]) / 60, 6), in
\* millionths of a degree
fix_coord(value) ==
  Num(Slice(value, 0, 2)) * 1000000 + minutes_to_degrees(float(SliceFrom(value, 2)))

\* round(f * 1.852)
knots_to_kmh(f) == RoundDiv(f.num * 1852, 1000 * Pow10(f.scale))

\* the dict of split_input for parts it accepts, which pydantic makes the
\* H02Payload
H02Payload_of(parts) ==
  [device_id |-> parts[2],
   latitude |-> fix_coord(parts[6]),
   longitude |-> fix_coord(parts[8]),
   velocity |-> knots_to_kmh(float(parts[10])),
   timestamp |-> strptime(parts[12] \o parts[4])]

\* H02Payload.model_validate(value), for value that process_payload accepts
H02Payload(value) == H02Payload_of(split(value))

\* the leap years before `year`
LeapsBefore(year) == (year - 1) \div 4 - (year - 1) \div 100 + (year - 1) \div 400

RECURSIVE DaysBeforeMonth(_, _)
DaysBeforeMonth(year, month) ==
  IF month = 1 THEN 0
  ELSE DaysBeforeMonth(year, month - 1) + DaysInMonth(year, month - 1)

\* the seconds from 1970-01-01 00:00:00 to the date and time dt shows,
\* both on the same clock
seconds_since_1970(dt) ==
  (365 * (dt.year - 1970) + LeapsBefore(dt.year) - LeapsBefore(1970)
     + DaysBeforeMonth(dt.year, dt.month) + dt.day - 1) * 86400
  + dt.hour * 3600 + dt.minute * 60 + dt.second

\* datetime.timestamp() of a naive datetime: it is read as local time of
\* the server, which is `offset` seconds ahead of UTC
timestamp(dt, offset) == seconds_since_1970(dt) - offset

\* MQTTPayload.serialize_timestamp
serialize_timestamp(dt, offset) == timestamp(dt, offset)

\* MQTTPayload(lat=..., lon=..., vel=..., tst=..., created_at=now).
\* model_dump_json(): the JSON object published, a record of its keys.
\* _type, its name starting with an underscore, is a private attribute of
\* the pydantic model and not a field: it is not dumped.  created_at is
\* the time of the call, written "now".
model_dump_json(h, offset) ==
  [lat |-> h.latitude, lon |-> h.longitude, acc |-> 3,
   vel |-> h.velocity, tst |-> serialize_timestamp(h.timestamp, offset),
   created_at |-> "now", conn |-> "m", tid |-> "CA", t |-> "I"]

\* the payload process_payload(value) publishes on a server `offset`
\* seconds ahead of UTC
published(value, offset) == model_dump_json(H02Payload(value), offset)

\* ---------------------------------------------------------------- framing
\* process_buffer(buffer), run to its end: the (message, end) pairs it
\* yields, and whether it then raises BadRequest("unexpected data") with
\* the cursor at a character that is not '*'
RECURSIVE process_buffer_from(_, _, _)
process_buffer_from(buffer, cursor, yields) ==
  IF ~(cursor < Len(buffer))
  THEN [yields |-> yields, raised |-> FALSE, cursor |-> cursor]
  ELSE IF At(buffer, cursor) # "*"
  THEN [yields |-> yields, raised |-> TRUE, cursor |-> cursor]
  ELSE
    LET end == find(buffer, "#", cursor)
    IN IF end = -1
       THEN [yields |-> yields, raised |-> FALSE, cursor |-> cursor]
       ELSE process_buffer_from(
              buffer, end + 1,
              Append(yields, [message |-> Slice(buffer, cursor + 1, end), end |-> end]))

\* process_buffer returning after its first yield
process_buffer_first(buffer) ==
  [process_buffer_from(buffer, 0, <<>>) EXCEPT
     !.yields = SubSeq(@, 1, Min(1, Len(@))), !.raised = FALSE]

\* process_buffer scanning the frames from the last to the first
process_buffer_reversed(buffer) ==
  [process_buffer_from(buffer, 0, <<>>) EXCEPT
     !.yields = [i \in 1..Len(@) |-> @[Len(@) + 1 - i]]]

\* process_buffer in tolerant mode: the characters before the next '*' are
\* skipped
RECURSIVE process_buffer_tolerant_from(_, _, _)
process_buffer_tolerant_from(buffer, cursor, yields) ==
  IF find(buffer, "*", cursor) = -1 \/ find(buffer, "#", find(buffer, "*", cursor)) = -1
  THEN [yields |-> yields, raised |-> FALSE, cursor |-> cursor]
  ELSE process_buffer_tolerant_from(
         buffer, find(buffer, "#", find(buffer, "*", cursor)) + 1,
         Append(yields,
                [message |-> Slice(buffer, find(buffer, "*", cursor) + 1,
                                   find(buffer, "#", find(buffer, "*", cursor))),
                 end |-> find(buffer, "#", find(buffer, "*", cursor))]))

process_buffer_tolerant(buffer) == process_buffer_tolerant_from(buffer, 0, <<>>)

\* process_buffer collecting its pairs and returning them at the end: when
\* it raises, none is yielded
process_buffer_collected(buffer) ==
  IF process_buffer_from(buffer, 0, <<>>).raised
  THEN [process_buffer_from(buffer, 0, <<>>) EXCEPT !.yields = <<>>]
  ELSE process_buffer_from(buffer, 0, <<>>)

process_buffer(buffer) == process_buffer_from(buffer, 0, <<>>)

\* the buffer kept whole after a message was yielded
trim_nothing(buffer, end) == buffer

\* buffer = buffer[end + 1 :], on handle_request's own buffer
trim(buffer, end) == SliceFrom(buffer, end + 1)

\* The for loops of handle_request and TCPHandler.handle over one
\* process_buffer(buffer) generator, from its i-th yield on: each message
\* goes to process_payload, whose exception ends the session before the
\* buffer is trimmed; after the last yield the generator's BadRequest, if
\* any, is raised.  buf is handle_request's buffer, sent the messages
\* published so far.
RECURSIVE consume(_, _, _, _)
consume(pb, i, buf, sent) ==
  IF i > Len(pb.yields)
  THEN [status |-> IF pb.raised THEN "unexpected data" ELSE "recv",
        buffer |-> buf, sent |-> sent]
  ELSE IF process_payload(pb.yields[i].message) # "none"
  THEN [status |-> process_payload(pb.yields[i].message), buffer |-> buf, sent |-> sent]
  ELSE consume(pb, i + 1, trim(buf, pb.yields[i].end), Append(sent, pb.yields[i]))

\* the loops over process_buffer(buffer), for buffer as it is after
\* buffer += chunk.decode()
on_buffer(buffer) == consume(process_buffer(buffer), 1, buffer, <<>>)

\* One iteration of handle_request's while loop on a non-empty chunk, with
\* the handling of every message it yields
on_chunk(buffer, chunk) ==
  IF ~decodable(chunk)
  THEN [status |-> "cannot read chunk", buffer |-> buffer, sent |-> <<>>]
  ELSE on_buffer(buffer \o decode(chunk))

\* ------------------------------------------------------------------ state
VARIABLES
  cstate,   \* per connection, the client's end: "idle", "open", "closed", "reset"
  wire,     \* per connection, the bytes sent and not yet returned by recv
  sends,    \* the pieces sent so far, all clients together
  server,   \* the process: "serving" while serve_forever runs, else "down"
  active,   \* the connection whose handler runs (0: the server waits in accept)
  sstate,   \* per connection, its session: "pending", "recv" (in the read loop),
            \* "closed" (end of stream), or the error that ended it
  buffer,   \* per connection, handle_request's buffer
  rx,       \* per connection, the text of every chunk that decoded
  base,     \* per connection, where in rx the buffer last handed to
            \* process_buffer starts
  sink,     \* the calls of mqtt_client.publish, in order
  tz        \* the server's local time, in seconds ahead of UTC

vars == <<cstate, wire, sends, server, active, sstate, buffer, rx, base, sink, tz>>

\* the buffer last handed to process_buffer
scanned(c) == SliceFrom(rx[c], base[c])

\* what the clients send: a frame that decodes, a frame of one field, the
\* start of a frame, a character outside any frame, a two-byte character
GoodFrame ==
  <<"*", ",", "7", ",", ",", "1", "0", "2", "5", "2", "3", ",", ",", "5", "6", "2", "8",
    ",", ",", "8", "5", "0", "2", ",", ",", "0", ",", ",", "2", "9", "1", "0", "2", "4", "#">>

ShortFrame == <<"*", "x", "#">>

OpenFrame == <<"*", "x">>

Noise == <<"x">>

TwoByteChar == <<"C3", "A9">>

Pieces == {GoodFrame, ShortFrame, OpenFrame, Noise, TwoByteChar}

\* H02 reports as the tracker of tests/test_main.py sends them, one for
\* each choice of device id, time, latitude, longitude, speed and date
DeviceIds ==
  {<<"9", "1", "7", "0", "1", "1", "9", "2", "4", "7">>,
   <<"7">>}

Times ==
  {<<"1", "0", "2", "5", "2", "3">>,
   <<"2", "3", "5", "9", "5", "9">>}

Latitudes ==
  {<<"5", "6", "2", "8", ".", "0", "9", "6", "0">>,
   <<"8", "9", "5", "9", ".", "9", "9", "9", "9">>}

Longitudes ==
  {<<"8", "5", "0", "2", ".", "8", "6", "4", "8">>,
   <<"0", "0", "3", "0", ".", "5">>}

Speeds ==
  {<<"0", ".", "0", "0">>,
   <<"6", "0", ".", "5">>}

Dates ==
  {<<"2", "9", "1", "0", "2", "4">>,
   <<"0", "1", "0", "1", "7", "0">>}

Report(id, time, lat, lon, speed, date) ==
  <<"*", "H", "Q", ",">> \o id \o <<",", "V", "6", ",">> \o time \o <<",", "A", ",">> \o lat
    \o <<",", "N", ",">> \o lon \o <<",", "E", ",">> \o speed
    \o <<",", "2", "8", "4", ".", "0", "0", ",">> \o date
    \o <<",", "F", "F", "F", "F", "F", "B", "F", "F", ",", "2", "5", "0", ",", "2", ",", "7", "0", "0", "6", ",", "5", "0", "4", "2", "1", ",", "8", "9", "7", "0", "1", "1", "1", "0", "2", "5", "1", "3", "8", "2", "7", "0", "0", "6", "F", "F", ",", "#">>

Reports ==
  {Report(id, time, lat, lon, speed, date) :
     id \in DeviceIds, time \in Times, lat \in Latitudes, lon \in Longitudes,
     speed \in Speeds, date \in Dates}

\* the report of tests/test_main.py
ExampleReport ==
  Report(<<"9", "1", "7", "0", "1", "1", "9", "2", "4", "7">>, <<"1", "0", "2", "5", "2", "3">>, <<"5", "6", "2", "8", ".", "0", "9", "6", "0">>, <<"8", "5", "0", "2", ".", "8", "6", "4", "8">>, <<"0", ".", "0", "0">>, <<"2", "9", "1", "0", "2", "4">>)

\* a piece of n bytes that opens a frame and never ends it
FloodPiece(n) == [i \in 1..n |-> IF i = 1 THEN "*" ELSE "x"]

FloodSizes == {RecvSize, RecvSize \div 2}

\* the zones the server may run in: UTC, UTC+3
TZOffsets == {0, 10800}

\* a buffer the sessions share: a session starts with what the last one left
SharedBuffer(c) == IF c > 1 THEN buffer[c - 1] ELSE <<>>

\* buffer = "" at the start of handle_request
FreshBuffer(c) == <<>>

\* socketserver's serve_forever after a handler ended with `status`: a
\* BadRequest is caught in TCPHandler.handle, any other exception by the
\* server's handle_error, and the loop goes on to the next accept
after_session(status) == "serving"

Init ==
  /\ cstate = [c \in Conns |-> "idle"]
  /\ wire = [c \in Conns |-> <<>>]
  /\ sends = 0
  /\ server = "serving"
  /\ active = 0
  /\ sstate = [c \in Conns |-> "pending"]
  /\ buffer = [c \in Conns |-> <<>>]
  /\ rx = [c \in Conns |-> <<>>]
  /\ base = [c \in Conns |-> 0]
  /\ sink = <<>>
  /\ tz \in TZOffsets

\* ---------------------------------------------------------------- clients
\* connections are numbered in the order the clients connect
Connect(c) ==
  /\ cstate[c] = "idle"
  /\ \A d \in Conns : d < c => cstate[d] # "idle"
  /\ cstate' = [cstate EXCEPT ![c] = "open"]
  /\ UNCHANGED <<wire, sends, server, active, sstate, buffer, rx, base, sink, tz>>

Send(c, piece, limit) ==
  /\ cstate[c] = "open"
  /\ sends < limit
  /\ sends' = sends + 1
  /\ wire' = [wire EXCEPT ![c] = @ \o piece]
  /\ UNCHANGED <<cstate, server, active, sstate, buffer, rx, base, sink, tz>>

Close(c) ==
  /\ cstate[c] = "open"
  /\ cstate' = [cstate EXCEPT ![c] = "closed"]
  /\ UNCHANGED <<wire, sends, server, active, sstate, buffer, rx, base, sink, tz>>

\* the client aborts the connection: what it sent and was not read is lost
Reset(c) ==
  /\ cstate[c] = "open"
  /\ cstate' = [cstate EXCEPT ![c] = "reset"]
  /\ wire' = [wire EXCEPT ![c] = <<>>]
  /\ UNCHANGED <<sends, server, active, sstate, buffer, rx, base, sink, tz>>

\* ----------------------------------------------------------------- server
\* serve_forever accepts the oldest connection not yet handled, and
\* TCPHandler.handle starts handle_request on it
Accept(c) ==
  /\ server = "serving"
  /\ active = 0
  /\ cstate[c] # "idle"
  /\ sstate[c] = "pending"
  /\ \A d \in Conns : d < c => sstate[d] # "pending"
  /\ active' = c
  /\ sstate' = [sstate EXCEPT ![c] = "recv"]
  /\ buffer' = [buffer EXCEPT ![c] = FreshBuffer(c)]
  /\ UNCHANGED <<cstate, wire, sends, server, rx, base, sink, tz>>

\* the session of c ends with `status`
EndSession(c, status) ==
  /\ sstate' = [sstate EXCEPT ![c] = status]
  /\ active' = 0
  /\ server' = after_session(status)

\* the state after the loop body ran on `chunk` with outcome r
Received(c, chunk, r) ==
  /\ wire' = [wire EXCEPT ![c] = SubSeq(@, Len(chunk) + 1, Len(@))]
  /\ rx' = [rx EXCEPT ![c] = IF decodable(chunk) THEN @ \o decode(chunk) ELSE @]
  /\ base' = [base EXCEPT ![c] =
                IF decodable(chunk) THEN Len(rx[c]) - Len(buffer[c]) ELSE @]
  /\ buffer' = [buffer EXCEPT ![c] = r.buffer]
  /\ sink' = sink \o [i \in 1..Len(r.sent) |->
                        [conn |-> c, message |-> r.sent[i].message,
                         at |-> Len(rx[c]) - Len(buffer[c]) + r.sent[i].end,
                         payload |-> published(r.sent[i].message, tz)]]
  /\ IF r.status = "recv"
     THEN UNCHANGED <<server, active, sstate>>
     ELSE EndSession(c, r.status)

\* request.recv(4096) returns the first n bytes of what is on the wire, and
\* the loop body and the handling of every yielded message run
Recv(c, n) ==
  /\ server = "serving"
  /\ active = c
  /\ sstate[c] = "recv"
  /\ n \in 1..Min(Len(wire[c]), RecvSize)
  /\ Received(c, SubSeq(wire[c], 1, n), on_chunk(buffer[c], SubSeq(wire[c], 1, n)))
  /\ UNCHANGED <<cstate, sends, tz>>

\* at the end of the stream, what is left in the buffer after its '*' is
\* published as a last frame
RecvEOF_flush(c) ==
  /\ server = "serving"
  /\ active = c
  /\ sstate[c] = "recv"
  /\ wire[c] = <<>>
  /\ cstate[c] = "closed"
  /\ EndSession(c, "closed")
  /\ sink' = IF buffer[c] = <<>> THEN sink
             ELSE Append(sink, [conn |-> c, message |-> SliceFrom(buffer[c], 1),
                                at |-> Len(rx[c])])
  /\ UNCHANGED <<cstate, wire, sends, buffer, rx, base, tz>>

\* recv returns b"": the while loop ends, handle returns
RecvEOF(c) ==
  /\ server = "serving"
  /\ active = c
  /\ sstate[c] = "recv"
  /\ wire[c] = <<>>
  /\ cstate[c] = "closed"
  /\ EndSession(c, "closed")
  /\ UNCHANGED <<cstate, wire, sends, buffer, rx, base, sink, tz>>

\* recv raises ConnectionResetError, which leaves handle
RecvError(c) ==
  /\ server = "serving"
  /\ active = c
  /\ sstate[c] = "recv"
  /\ cstate[c] = "reset"
  /\ EndSession(c, "ConnectionResetError")
  /\ UNCHANGED <<cstate, wire, sends, buffer, rx, base, sink, tz>>

\* what the server does for connection c
Serve(c) ==
  \/ Accept(c)
  \/ \E n \in 1..Len(wire[c]) : Recv(c, n)
  \/ RecvEOF(c)
  \/ RecvError(c)

\* what the client of connection c does, sending at most `limit` pieces
Client(c, limit) ==
  \/ Connect(c)
  \/ \E piece \in Pieces : Send(c, piece, limit)
  \/ Close(c)
  \/ Reset(c)

ServerStep == \E c \in Conns : Serve(c)

Next == (\E c \in Conns : Client(c, MaxShared)) \/ ServerStep

\* the server and NConn clients
Spec == Init /\ [][Next]_vars

SessionNext == Client(1, MaxSends) \/ Serve(1)

\* the server and one client: a single session
SessionSpec == Init /\ [][SessionNext]_vars

FloodNext ==
  \/ Connect(1)
  \/ \E n \in FloodSizes : Send(1, FloodPiece(n), MaxFloods)
  \/ Close(1)
  \/ Accept(1)
  \/ Recv(1, Min(Len(wire[1]), RecvSize))
  \/ RecvEOF(1)

\* the server and one client that opens a frame and never ends it, recv
\* returning all that is there, up to its limit
FloodSpec == Init /\ [][FloodNext]_vars

DecodeNext ==
  \/ Connect(1)
  \/ \E report \in Reports : Send(1, report, MaxReports)
  \/ Close(1)
  \/ Accept(1)
  \/ Recv(1, Min(Len(wire[1]), RecvSize))
  \/ RecvEOF(1)

\* the server and one tracker that sends whole reports, recv returning all
\* that is there
DecodeSpec == Init /\ [][DecodeNext]_vars

\* ----------------------------------------------------------- properties
\* the calls of the sink for connection c, in order
SinkOf(c) == LET of(e) == e.conn = c IN SelectSeq(sink, of)

MessagesOf(entries) == [i \in 1..Len(entries) |-> entries[i].message]

\* the calls of the sink made for c while the last chunk was handled
LastSinkOf(c) == LET of(e) == e.conn = c /\ e.at >= base[c] IN SelectSeq(sink, of)

DecodeErrors == {"IndexError", "ValidationError"}

\* the indices (0-based) of the '#' of text, and the k-th of them
Hashes(text) == {i \in 0..(Len(text) - 1) : At(text, i) = "#"}

Hash(text, k) ==
  CHOOSE i \in Hashes(text) : Cardinality({j \in Hashes(text) : j < i}) = k - 1

\* text is '*...#' frames one after the other, then nothing or the start of
\* one more frame
WellFramed(text) ==
  \A i \in 0..(Len(text) - 1) :
    (i = 0 \/ At(text, i - 1) = "#") => At(text, i) = "*"

\* the frames of a well-framed text: what stands between each '*' that
\* follows a '#' (or starts the text) and the next '#'
FramesOf(text) ==
  [k \in 1..Cardinality(Hashes(text)) |->
     Slice(text, (IF k = 1 THEN 0 ELSE Hash(text, k - 1) + 1) + 1, Hash(text, k))]

\* the first index of text at a frame boundary that holds no '*', or -1
FirstBad(text) ==
  LET bad == {i \in 0..(Len(text) - 1) :
                (i = 0 \/ At(text, i - 1) = "#") /\ At(text, i) # "*"}
  IN IF bad = {} THEN -1 ELSE CHOOSE i \in bad : \A j \in bad : i <= j

\* C1: the frames a connection has emitted, its chunks received one after
\* another, are the frames emitted when all the text received so far comes
\* as one chunk
C1_ChunkIndependence ==
  \A c \in Conns :
    sstate[c] # "pending" => MessagesOf(SinkOf(c)) = MessagesOf(on_buffer(rx[c]).sent)

\* C2: once a chunk is handled and the session reads on, the buffer is what
\* follows the '#' of the last frame emitted from that chunk, or the whole
\* scanned buffer when the chunk completed no frame
C2_RetainsUnconsumedTail ==
  \A c \in Conns :
    sstate[c] = "recv" =>
      buffer[c] = IF LastSinkOf(c) = <<>> THEN scanned(c)
                  ELSE SliceFrom(rx[c], LastSinkOf(c)[Len(LastSinkOf(c))].at + 1)

\* C3: when the scanned buffer is frames one after the other (and maybe the
\* start of one more), process_buffer yields exactly those frames in
\* order; when they all decode they are the sink calls of that chunk, in
\* order, and a buffer that ended with the last '#' is left empty
C3_YieldsEveryFrame ==
  \A c \in Conns :
    WellFramed(scanned(c)) =>
      /\ MessagesOf(process_buffer(scanned(c)).yields) = FramesOf(scanned(c))
      /\ ~process_buffer(scanned(c)).raised
      /\ (\A k \in 1..Len(FramesOf(scanned(c))) :
            process_payload(FramesOf(scanned(c))[k]) = "none")
         => /\ MessagesOf(LastSinkOf(c)) = FramesOf(scanned(c))
            /\ (scanned(c) # <<>> /\ scanned(c)[Len(scanned(c))] = "#"
                  => buffer[c] = <<>>)

\* one chunk completed two frames and ended with the second '#': both went
\* to the sink and the buffer is empty
C3_Witness ==
  /\ Len(LastSinkOf(1)) = 2
  /\ scanned(1)[Len(scanned(1))] = "#"
  /\ buffer[1] = <<>>
  /\ sstate[1] = "recv"

\* C4: the sink calls of one connection are in the order of the '#' of
\* their frames in that connection's stream
C4_PerConnectionOrder ==
  \A i, j \in 1..Len(sink) :
    (i < j /\ sink[i].conn = sink[j].conn) =>
      /\ sink[i].at < sink[j].at
      /\ At(rx[sink[i].conn], sink[i].at) = "#"
      /\ At(rx[sink[j].conn], sink[j].at) = "#"

\* two frames of the second connection reached the sink after the first
\* connection was served
C4_Witness ==
  /\ Len(SinkOf(2)) = 2
  /\ sstate[1] # "pending"

\* C5: no session is ended by the failure to decode a frame
C5_DecodeFailureNotFatal == \A c \in Conns : sstate[c] \notin DecodeErrors

\* C6: the buffer of a live session holds at most 10,000 characters
C6_BufferBounded ==
  \A c \in Conns : sstate[c] = "recv" => Len(buffer[c]) <= 10000

\* C7: when the scanned buffer holds, at a frame boundary, a character that
\* is not '*', the session is over, with a framing error unless a frame
\* before that character failed to decode, and no frame at or after that
\* character was handed to the sink
C7_StrictFraming ==
  \A c \in Conns :
    (sstate[c] # "pending" /\ FirstBad(scanned(c)) # -1) =>
      /\ sstate[c] \in {"unexpected data"} \cup DecodeErrors
      /\ active # c
      /\ (\A k \in 1..Len(sink) : sink[k].conn = c => sink[k].at < base[c] + FirstBad(scanned(c)))
      /\ (\A k \in 1..Cardinality(Hashes(Slice(scanned(c), 0, FirstBad(scanned(c))))) :
            process_payload(FramesOf(Slice(scanned(c), 0, FirstBad(scanned(c))))[k]) = "none")
         => sstate[c] = "unexpected data"

\* a framing error ended the session with a complete frame after the
\* offending character
C7_Witness ==
  /\ sstate[1] = "unexpected data"
  /\ find(scanned(1), "#", FirstBad(scanned(1)) + 1) # -1
  /\ find(scanned(1), "*", FirstBad(scanned(1)) + 1) # -1

\* C8: the server keeps serving; a session starts with an empty buffer;
\* when the text received on a connection starts with a frame that
\* decodes, that frame was handed to the sink; and when all the text
\* received was scanned at once and is frames that decode, they are the
\* sink calls of the connection
C8_ErrorIsolation ==
  /\ server = "serving"
  /\ \A c \in Conns :
       /\ (sstate[c] = "recv" /\ rx[c] = <<>>) => buffer[c] = <<>>
       /\ (/\ rx[c] # <<>>
           /\ rx[c][1] = "*"
           /\ find(rx[c], "#", 0) # -1
           /\ process_payload(Slice(rx[c], 1, find(rx[c], "#", 0))) = "none")
          => \E k \in 1..Len(sink) :
               /\ sink[k].conn = c
               /\ sink[k].at = find(rx[c], "#", 0)
               /\ sink[k].message = Slice(rx[c], 1, find(rx[c], "#", 0))
       /\ (/\ sstate[c] # "pending"
           /\ base[c] = 0
           /\ WellFramed(rx[c])
           /\ \A k \in 1..Len(FramesOf(rx[c])) : process_payload(FramesOf(rx[c])[k]) = "none")
          => MessagesOf(SinkOf(c)) = FramesOf(rx[c])

\* the first session ended with an exception that left the handler, and a
\* frame of the second connection reached the sink
C8_Witness ==
  /\ sstate[1] = "IndexError"
  /\ SinkOf(2) # <<>>

\* C9: a frame reaches the sink only by steps of the server, so the frame
\* of the second connection is eventually handed to the sink, the first
\* connection staying open and silent, only if the server can take a step
\* for the second connection while the session of the first is blocked in
\* recv
C9_FirstBlocked ==
  /\ active = 1
  /\ sstate[1] = "recv"
  /\ cstate[1] = "open"
  /\ wire[1] = <<>>

C9_SecondSent ==
  /\ cstate[2] = "open"
  /\ wire[2] = GoodFrame
  /\ SinkOf(2) = <<>>

C9_SessionsIndependent ==
  (C9_FirstBlocked /\ C9_SecondSent) => ENABLED Serve(2)

\* C10: a yielded frame of fewer than 12 fields raises no exception in the
\* decode step
C10_ShortFrameNoException ==
  \A c \in Conns :
    \A k \in 1..Len(process_buffer(scanned(c)).yields) :
      Len(split(process_buffer(scanned(c)).yields[k].message)) < 12
        => process_payload(process_buffer(scanned(c)).yields[k].message) \notin DecodeErrors

\* C11: no session is ended by bytes that do not decode as text
C11_EncodingErrorNotFatal == \A c \in Conns : sstate[c] # "cannot read chunk"

\* C12: every sink call of a connection is of a frame that decodes, ending
\* at a '#' of the connection's stream; no two sink calls are of the same
\* frame; and the sink calls are no more than the complete frames received
C12_AtMostOnce ==
  \A c \in Conns :
    /\ \A i \in 1..Len(SinkOf(c)) :
         /\ At(rx[c], SinkOf(c)[i].at) = "#"
         /\ process_payload(SinkOf(c)[i].message) = "none"
         /\ \A j \in 1..Len(SinkOf(c)) : i # j => SinkOf(c)[i].at # SinkOf(c)[j].at
    /\ Len(SinkOf(c)) <= Cardinality(Hashes(rx[c]))

\* three frames, received in more than one chunk, each reached the sink
C12_Witness ==
  /\ Len(SinkOf(1)) = 3
  /\ base[1] > 0

\* C13: a session that met the end of the stream is over and stays as it
\* is: nothing more is read, nothing more reaches the sink; and every one
\* of its sink calls is of a frame closed by a '#', so what followed the
\* last '#' was never handed to the sink
C13_Ended(c) ==
  sstate[c] = "closed" =>
    /\ active # c
    /\ wire[c] = <<>>
    /\ \A k \in 1..Len(SinkOf(c)) : SinkOf(c)[k].at \in Hashes(rx[c])

C13_Stays(c) ==
  sstate[c] = "closed" =>
    /\ sstate'[c] = "closed"
    /\ rx'[c] = rx[c]
    /\ buffer'[c] = buffer[c]
    /\ SinkOf(c)' = SinkOf(c)

C13_EndOfStream ==
  /\ [](\A c \in Conns : C13_Ended(c))
  /\ [][\A c \in Conns : C13_Stays(c)]_vars

\* the stream ended after a frame that reached the sink and the start of
\* another frame, which is left in the buffer
C13_Witness ==
  /\ sstate[1] = "closed"
  /\ buffer[1] = OpenFrame
  /\ SinkOf(1) # <<>>

\* C14: the buffer of a session is the end of the text received on its own
\* connection, empty when nothing was received; and every message handed
\* to the sink for a connection is the characters of that connection's
\* text between a '*' and the '#' of the sink call
C14_NoLeakAcrossConnections ==
  \A c \in Conns :
    /\ sstate[c] # "pending" =>
         /\ Len(buffer[c]) <= Len(rx[c])
         /\ buffer[c] = SliceFrom(rx[c], Len(rx[c]) - Len(buffer[c]))
    /\ \A k \in 1..Len(SinkOf(c)) :
         /\ SinkOf(c)[k].at - Len(SinkOf(c)[k].message) >= 1
         /\ SinkOf(c)[k].at < Len(rx[c])
         /\ SinkOf(c)[k].message =
              Slice(rx[c], SinkOf(c)[k].at - Len(SinkOf(c)[k].message), SinkOf(c)[k].at)
         /\ At(rx[c], SinkOf(c)[k].at - Len(SinkOf(c)[k].message) - 1) = "*"

\* the first session ended with the start of a frame in its buffer, and a
\* frame of the second connection reached the sink
C14_Witness ==
  /\ sstate[1] = "closed"
  /\ buffer[1] = OpenFrame
  /\ SinkOf(2) # <<>>

\* the message of the example report, between its '*' and its '#'
ExampleMessage == SubSeq(ExampleReport, 2, Len(ExampleReport) - 1)

\* millionths is the multiple of a millionth of a degree nearest to the
\* degrees of field's first two characters plus the minutes of its other
\* characters divided by 60 (minutes of at most 6 decimals)
C15_Nearest(millionths, field) ==
  LET degrees == Num(Slice(field, 0, 2))
      minutes == float(SliceFrom(field, 2))
      rest == millionths - degrees * 1000000
      exact60 == minutes.num * Pow10(6 - minutes.scale)
  IN /\ minutes.scale <= 6
     /\ 2 * (rest * 60 - exact60) <= 60
     /\ 2 * (exact60 - rest * 60) <= 60

\* every report handed to the sink was decoded by the rule, and its
\* latitude and longitude are those of the payload published
C15_Rule ==
  \A k \in 1..Len(sink) :
    /\ C15_Nearest(H02Payload(sink[k].message).latitude, split(sink[k].message)[6])
    /\ C15_Nearest(H02Payload(sink[k].message).longitude, split(sink[k].message)[8])
    /\ sink[k].payload.lat = H02Payload(sink[k].message).latitude
    /\ sink[k].payload.lon = H02Payload(sink[k].message).longitude

\* the example report is decoded with the latitude `latitude`
C15_Example(latitude) ==
  \A k \in 1..Len(sink) :
    sink[k].message = ExampleMessage =>
      /\ H02Payload(sink[k].message).latitude = latitude
      /\ H02Payload(sink[k].message).longitude = 85047747
      /\ H02Payload(sink[k].message).velocity = 0
      /\ H02Payload(sink[k].message).device_id =
           <<"9", "1", "7", "0", "1", "1", "9", "2", "4", "7">>

\* C15 as stated: coordinates decode to degrees + minutes / 60 rounded to 6
\* decimals, and the example report decodes to latitude 56.466667,
\* longitude 85.047747, velocity 0 and device id 9170119247
C15_ExampleAsStated == C15_Rule /\ C15_Example(56466667)

\* C15 amended: coordinates decode to degrees + minutes / 60 rounded to 6
\* decimals, and the example report decodes to latitude 56.468267
\* (56 + 28.0960 / 60), longitude 85.047747, velocity 0 and device id
\* 9170119247
C15_CoordinateDecoding == C15_Rule /\ C15_Example(56468267)

\* the example report was decoded and handed to the sink
C15_Witness ==
  /\ sink # <<>>
  /\ sink[1].message = ExampleMessage

\* C16: the tst of every payload handed to the sink is the seconds from
\* 1970-01-01 00:00:00 UTC to the date (field 11) and time (field 3) of the
\* report read as UTC, in whatever zone the server runs; for the example
\* report, 1730197523 (2024-10-29 10:25:23 UTC)
C16_TimestampIsUTC ==
  \A k \in 1..Len(sink) :
    /\ sink[k].payload.tst =
         seconds_since_1970(strptime(split(sink[k].message)[12] \o split(sink[k].message)[4]))
    /\ sink[k].message = ExampleMessage => sink[k].payload.tst = 1730197523

\* C17: every payload handed to the sink has the ten keys _type, lat, lon,
\* acc, vel, tst, created_at, conn, tid and t, with _type = "location",
\* acc = 3, conn = "m" and t = "I"
C17_TenFields ==
  \A k \in 1..Len(sink) :
    /\ DOMAIN sink[k].payload =
         {"_type", "lat", "lon", "acc", "vel", "tst", "created_at", "conn", "tid", "t"}
    /\ sink[k].payload._type = "location"
    /\ sink[k].payload.acc = 3
    /\ sink[k].payload.conn = "m"
    /\ sink[k].payload.t = "I"

\* C18: a session whose received text is frames one after the other, then
\* nothing or the start of one more frame, is not ended by a framing error
C18_NoSpuriousFramingError ==
  \A c \in Conns : WellFramed(rx[c]) => sstate[c] # "unexpected data"

\* C19: when a framing error ended the session, the complete frames that
\* stand in the scanned buffer before the offending character were handed
\* to the sink, in order, while that buffer was handled
C19_EffectsBeforeFramingError ==
  \A c \in Conns :
    sstate[c] = "unexpected data" =>
      /\ FirstBad(scanned(c)) # -1
      /\ MessagesOf(LastSinkOf(c)) = FramesOf(Slice(scanned(c), 0, FirstBad(scanned(c))))

\* a chunk held two frames and then a character outside any frame: both
\* frames reached the sink and the session ended with the framing error
C19_Witness ==
  /\ sstate[1] = "unexpected data"
  /\ Len(LastSinkOf(1)) = 2
  /\ FirstBad(scanned(1)) = 2 * Len(GoodFrame)

====
